---- MODULE Spec2Model ----
(***************************************************************************)
(* UAVLogViewer backend: the context-selection and summarisation pipeline. *)
(*                                                                         *)
(*   service/summariser.py   summarise_df, _sample_df, _describe_df,       *)
(*                           build_context                                 *)
(*   service/llm_router.py   infer_message_types_llm (lru_cache),          *)
(*                           refine_types_with_llm                         *)
(*   core/session_store.py   SessionStore                                  *)
(*   agents/intent_router.py IntentRouterAgent                             *)
(*                                                                         *)
(* Each component has its own specification over its own variables; the    *)
(* variables of the other components stay at their initial values:         *)
(*   SpecSum     one summarise_df call on a table drawn from Tables        *)
(*   SpecSel     calls of the memoised infer_message_types_llm             *)
(*   SpecInfer   calls of infer_message_types_llm with the backend's reply *)
(*   SpecRefine  one refine_types_with_llm call                            *)
(*   SpecStore   the methods of SessionStore, called one after the other   *)
(*   SpecRoute   IntentRouterAgent.route calls                             *)
(*   Spec        SessionStore with whole build_context calls               *)
(*   SpecConc    build_context calls of two threads, interleaved at the    *)
(*               granularity of the dictionary operations                  *)
(***************************************************************************)
EXTENDS Integers, Sequences, FiniteSets, TLC

VARIABLES
    sum_n,            \* summariser: row count of the input table
    sum_pat,          \* summariser: row pattern of the input table
    sum_out,          \* summariser: value returned by summarise_df, or NoneVal
    sel_cache,        \* lru_cache of infer_message_types_llm: its entries,
                      \*   least recently used first
    sel_computed,     \* probe: per argument tuple, the last result the function
                      \*   body computed for it, or NoneVal
    sel_since,        \* probe: per argument tuple, the other argument tuples
                      \*   called since its last call that returned
    sel_last,         \* probe: the last call of infer_message_types_llm
    sel_reply,        \* probe (SpecInfer): what the backend did in the last call
    sel_calls,        \* probe (SpecInfer): number of calls made
    ref_raw,          \* refine_types_with_llm: the candidate list raw_types
    ref_reply,        \* refine_types_with_llm: the reply of the backend
    ref_out,          \* refine_types_with_llm: the outcome of the call, or NoneVal
    telemetry,        \* SessionStore.telemetry
    intents,          \* SessionStore.intents
    conversation_history,  \* SessionStore.conversation_history
    metadata,         \* SessionStore.metadata
    cached_contexts,  \* SessionStore.cached_contexts: session id -> inner dict
    heap,             \* the inner dicts of cached_contexts
    bc_last,          \* probe: the last build_context call that returned
    st_last,           \* probe: the last SessionStore call and what it returned
    rt_last,          \* probe: the last IntentRouterAgent.route call
    th,               \* SpecConc: the build_context frame of each thread
    calls             \* SpecConc: the number of calls each thread has begun

sumVars == <<sum_n, sum_pat, sum_out>>
selVars == <<sel_cache, sel_computed, sel_since, sel_last, sel_reply, sel_calls>>
refVars == <<ref_raw, ref_reply, ref_out>>
storeVars == <<telemetry, intents, conversation_history, metadata,
               cached_contexts, heap, bc_last, st_last, rt_last, th, calls>>
vars    == <<sumVars, selVars, refVars, storeVars>>

Threads == {1, 2}

----------------------------------------------------------------------------
(* Python values.  Every value that may be compared with None is a record  *)
(* with a kind field.                                                      *)

NoneVal == [kind |-> "None"]

\* Truth value of a Python value that is None or a text: None and the empty
\* text are false.
IsTrue(x) == x.kind # "None" /\ ~(x.kind = "str" /\ x.chars = <<>>)

Min(a, b) == IF a < b THEN a ELSE b
Max(a, b) == IF a > b THEN a ELSE b

----------------------------------------------------------------------------
(* pandas.DataFrame, as the sequence of its rows.  A row is the value of   *)
(* its fields; rows are integers here, so that two rows are equal exactly  *)
(* when all of their fields are.  The index labels are not part of a row:  *)
(* drop_duplicates and to_json(orient="records") both ignore them.         *)

\* df.head(k)
Head_df(df, k) == SubSeq(df, 1, Min(k, Len(df)))

\* df.tail(k)
Tail_df(df, k) == SubSeq(df, Max(1, Len(df) - k + 1), Len(df))

\* A slice bound as Python normalises it: negative counts from the end,
\* and the result is clamped to 0..n.
SliceBound(i, n) == IF i < 0 THEN Max(0, n + i) ELSE Min(i, n)

\* df.iloc[a:b]
Iloc(df, a, b) == SubSeq(df, SliceBound(a, Len(df)) + 1, SliceBound(b, Len(df)))

\* df.iloc[::step], step >= 1: the rows at 0-based positions 0, step, 2*step, ...
IlocStep(df, step) ==
    [j \in 1..((Len(df) + step - 1) \div step) |-> df[(j - 1) * step + 1]]

\* pd.concat([a, b, c])
Concat(a, b, c) == a \o b \o c

\* The rows of s[lo..hi] that do not occur at an earlier position of s, in order.
RECURSIVE KeepFirst(_, _, _)
KeepFirst(s, lo, hi) ==
    IF lo > hi THEN <<>>
    ELSE IF lo = hi
         THEN IF \A k \in 1..(lo - 1) : s[k] # s[lo] THEN <<s[lo]>> ELSE <<>>
         ELSE LET mid == (lo + hi) \div 2
              IN  KeepFirst(s, lo, mid) \o KeepFirst(s, mid + 1, hi)

\* Mutant of DropDuplicates: the merged windows are not deduplicated.
DropDuplicates_skipped(df) == df

\* df.drop_duplicates(): keep="first", rows compared on all columns
DropDuplicates(df) == KeepFirst(df, 1, Len(df))

\* df.to_json(orient="records"): the text of a JSON array with one record per
\* row, in row order.
ToJson(df) == [kind |-> "json", value |-> [kind |-> "array", records |-> df]]

\* json.dumps(obj)
JsonDumps(obj) == [kind |-> "json", value |-> obj]

\* json.loads(text)
JsonLoads(text) == text.value

\* The least and the greatest value of the column.
ColMin(df) ==
    LET S == {df[i] : i \in 1..Len(df)}
    IN  CHOOSE x \in S : \A y \in S : x <= y

ColMax(df) ==
    LET S == {0 - df[i] : i \in 1..Len(df)}
    IN  0 - (CHOOSE x \in S : \A y \in S : x <= y)

\* df.describe().to_dict(): the digest of the numeric column.  count, min and
\* max are kept; mean, std and the quartiles are reals and are left out.
Describe(df) ==
    [kind |-> "object",
     count |-> Len(df),
     min   |-> ColMin(df),
     max   |-> ColMax(df)]

----------------------------------------------------------------------------
(* service/summariser.py                                                   *)

FullRows   == 500       \* summarise_df: n <= 500 is serialised in full
MaxRows    == 10000     \* summarise_df: max_rows default
Window     == 300       \* summarise_df: head(300), tail(300), keep_rows=300
HalfWindow == 150       \* summarise_df: n//2 - 150 : n//2 + 150

\* Mutant of _sample_df: the stride is one too large.
_sample_df_stride(df, keep_rows) ==
    IF Len(df) <= keep_rows
    THEN ToJson(df)
    ELSE ToJson(IlocStep(df, Len(df) \div keep_rows + 1))

_sample_df(df, keep_rows) ==
    IF Len(df) <= keep_rows
    THEN ToJson(df)
    ELSE LET step == Max(1, Len(df) \div keep_rows)
         IN  ToJson(IlocStep(df, step))

_describe_df(df) == JsonDumps(Describe(df))

\* Mutant of summarise_df: the small tier is deduplicated too.
summarise_df_dedup(df) ==
    LET n == Len(df)
    IN  IF n <= FullRows
        THEN ToJson(DropDuplicates(df))
        ELSE IF n <= MaxRows
        THEN ToJson(DropDuplicates(Concat(Head_df(df, Window),
                 Iloc(df, n \div 2 - HalfWindow, n \div 2 + HalfWindow),
                 Tail_df(df, Window))))
        ELSE JsonDumps([kind    |-> "object",
                        sample  |-> JsonLoads(_sample_df(df, Window)),
                        summary |-> JsonLoads(_describe_df(df)),
                        note    |-> n])

summarise_df(df) ==
    LET n == Len(df)
    IN  IF n <= FullRows
        THEN ToJson(df)
        ELSE IF n <= MaxRows
        THEN LET head   == Head_df(df, Window)
                 mid    == Iloc(df, n \div 2 - HalfWindow, n \div 2 + HalfWindow)
                 tail   == Tail_df(df, Window)
                 merged == DropDuplicates(Concat(head, mid, tail))
             IN  ToJson(merged)
        ELSE LET stats  == _describe_df(df)
                 sample == _sample_df(df, Window)
             IN  JsonDumps([kind    |-> "object",
                            sample  |-> JsonLoads(sample),
                            summary |-> JsonLoads(stats),
                            note    |-> n])

----------------------------------------------------------------------------
(* Input tables of the summariser.  A table is given by its row count and  *)
(* a row pattern; the patterns cover tables without repeated rows, tables  *)
(* of one repeated row, rows repeating with a short period (the same row   *)
(* in head, mid and tail) and runs of equal neighbours.                    *)

Span      == 3          \* row counts checked on each side of a tier or overlap edge
Period    == 7          \* pattern "periodic": row i is i mod Period
RunLen    == 40         \* pattern "runs": RunLen equal rows in a row
HugeRows  == 50000      \* one table far above max_rows

Patterns == {"distinct", "constant", "periodic", "runs"}

RowAt(pat, i) ==
    CASE pat = "distinct" -> i
      [] pat = "constant" -> 0
      [] pat = "periodic" -> i % Period
      [] OTHER            -> i \div RunLen

\* The table as a sequence of n rows (the concatenation makes TLC build the
\* tuple once instead of evaluating the function at every access).
Table(n, pat) == [i \in 1..n |-> RowAt(pat, i)] \o <<>>

Around(v) == (v - Span)..(v + Span)

\* Row counts: the empty and tiny tables, both tier edges, the row counts at
\* which the head and tail windows (2*Window) and the head, mid and tail
\* windows (3*Window) stop overlapping, the middle of the sampled tier, the
\* row counts at which the stride of the large tier changes, and a huge table.
RowCounts ==
    (0..Span) \cup Around(FullRows) \cup Around(2 * Window) \cup Around(3 * Window)
      \cup Around(MaxRows \div 2) \cup Around(MaxRows)
      \cup Around((MaxRows \div Window + 1) * Window) \cup {HugeRows}

InitSum ==
    /\ sum_n \in RowCounts
    /\ sum_pat \in Patterns
    /\ sum_out = NoneVal

\* The summariser at rest, in the specifications of the other components.
IdleSum ==
    /\ sum_n = 0
    /\ sum_pat = "distinct"
    /\ sum_out = NoneVal

\* One call summarise_df(df) on the table drawn by InitSum.
Summarise ==
    /\ sum_out = NoneVal
    /\ sum_out' = summarise_df(Table(sum_n, sum_pat))
    /\ UNCHANGED <<sum_n, sum_pat>>

----------------------------------------------------------------------------
(* service/llm_router.py: the Type Selector.                               *)

ERR == "ERR"

\* Identifiers the reasoning backend may emit; BOGUS is in no valid set.
BackendIds == {"GPS", "ATT", "BOGUS"}

\* Argument tuples (question, recent_user_msgs, types) of the calls.  The
\* second, third and fourth differ from the first in one component each.
SelArgs ==
    { [question |-> "q1", recent |-> <<>>, types |-> {"GPS", "ATT"}],
      [question |-> "q2", recent |-> <<>>, types |-> {"GPS", "ATT"}],
      [question |-> "q1", recent |-> <<"m1", "m2", "m3">>, types |-> {"GPS", "ATT"}],
      [question |-> "q1", recent |-> <<>>, types |-> {"GPS"}] }

MaxListLen == 2         \* longest message_types list in a backend reply

\* Sequences over S of length at most n.
SeqsUpTo(S, n) == UNION {[1..k -> S] : k \in 0..n}

\* json.loads of the function-call arguments: the texts the backend may
\* send, by what json.loads and the code after it make of them.
\*   parses           FALSE: json.loads raises JSONDecodeError
\*   top              the kind of the top-level JSON value
\*   has_key          the object has the key message_types
\*   mt_kind, items   the value under message_types: a list of strings, or null
ArgTexts ==
    { [parses |-> TRUE, top |-> "object", has_key |-> TRUE, mt_kind |-> "array",
       items |-> l] : l \in SeqsUpTo(BackendIds, MaxListLen) }
    \cup
    { [parses |-> TRUE,  top |-> "object", has_key |-> FALSE, mt_kind |-> "null", items |-> <<>>],
      [parses |-> TRUE,  top |-> "object", has_key |-> TRUE,  mt_kind |-> "null", items |-> <<>>],
      [parses |-> TRUE,  top |-> "array",  has_key |-> FALSE, mt_kind |-> "null", items |-> <<>>],
      [parses |-> FALSE, top |-> "none",   has_key |-> FALSE, mt_kind |-> "null", items |-> <<>>] }

NoArgs == [parses |-> FALSE, top |-> "none", has_key |-> FALSE, mt_kind |-> "null", items |-> <<>>]

\* What the call _llm(messages=..., functions=...) can do: raise (timeout after
\* request_timeout=8, network error), answer without a function call, or
\* answer with a function call carrying an arguments text.
InferReplies ==
    { [kind |-> k, arguments |-> NoArgs] : k \in {"timeout", "network_error", "no_function_call"} }
    \cup { [kind |-> "function_call", arguments |-> a] : a \in ArgTexts }

\* The reply is one of the failures of the reasoning backend: the call raised,
\* or the arguments are not parseable JSON.
BackendFailed(reply) ==
    \/ reply.kind \in {"timeout", "network_error"}
    \/ reply.kind = "function_call" /\ ~reply.arguments.parses

\* The outcome of a call: a returned set, or an exception that propagates.
Return(v) == [status |-> "return", value |-> v, exc |-> "none"]
Raise(e)  == [status |-> "raise", value |-> {}, exc |-> e]

\* set(seq)
SetOf(seq) == {seq[i] : i \in 1..Len(seq)}

\* Mutant of SelectFrom: the emitted identifiers are not intersected with types.
SelectFrom_unfiltered(items, types) ==
    IF SetOf(items) # {} THEN SetOf(items) ELSE {ERR}

\* selected = set(payload.get("message_types", [])) & types; selected or {"ERR"}
SelectFrom(items, types) ==
    LET selected == SetOf(items) \cap types
    IN  IF selected # {} THEN selected ELSE {ERR}

\* The body of infer_message_types_llm, given what the backend does.  The
\* question and the recent messages only enter the prompt, and the backend
\* is free to answer any prompt in any way.
infer_body(question, recent, types, reply) ==
    IF reply.kind \in {"timeout", "network_error"}
    THEN Raise(reply.kind)                      \* _llm(...) raises
    ELSE IF reply.kind = "function_call"
    THEN LET a == reply.arguments
         IN  IF ~a.parses THEN Raise("JSONDecodeError")       \* json.loads
             ELSE IF a.top # "object" THEN Raise("AttributeError")  \* payload.get
             ELSE IF ~a.has_key THEN Return(SelectFrom(<<>>, types))
             ELSE IF a.mt_kind = "null" THEN Raise("TypeError")      \* set(None)
             ELSE Return(SelectFrom(a.items, types))
    ELSE Return({ERR})

LruMaxSize == 2         \* capacity of the lru_cache (maxsize=256 in the source)

\* The key lru_cache makes of the arguments.
CacheKey(a) == <<a.question, a.recent, a.types>>

\* Position of the key in the cache, 0 when it is not cached.
CachePos(cache, key) ==
    IF \E i \in 1..Len(cache) : cache[i].key = key
    THEN CHOOSE i \in 1..Len(cache) : cache[i].key = key
    ELSE 0

\* A hit moves the entry to the most recently used end.
LruTouch(cache, i) ==
    SubSeq(cache, 1, i - 1) \o SubSeq(cache, i + 1, Len(cache)) \o <<cache[i]>>

\* Mutant of LruInsert: a full cache drops its most recently used entry.
LruInsert_evictNewest(cache, entry) ==
    IF Len(cache) >= LruMaxSize
    THEN SubSeq(cache, 1, Len(cache) - 1) \o <<entry>>
    ELSE cache \o <<entry>>

\* A miss stores the result; a full cache drops its least recently used entry.
LruInsert(cache, entry) ==
    IF Len(cache) >= LruMaxSize
    THEN Tail(cache) \o <<entry>>
    ELSE cache \o <<entry>>

NoInferReply == [kind |-> "none", arguments |-> NoArgs]

InitSel ==
    /\ sel_cache = <<>>
    /\ sel_computed = [a \in SelArgs |-> NoneVal]
    /\ sel_since = [a \in SelArgs |-> {}]
    /\ sel_last = NoneVal
    /\ sel_reply = NoInferReply
    /\ sel_calls = 0

IdleSel == InitSel

\* The other argument tuples called since the last returning call of k, once
\* a is called too.  LruMaxSize or more of them are not told apart.
SinceWith(k, a) ==
    LET s == sel_since[k] \cup {a}
    IN  IF Cardinality(s) >= LruMaxSize THEN SelArgs \ {k} ELSE s

\* The probes after a call with arguments a and outcome out.
SelProbes(a, invoked, out) ==
    /\ sel_computed' =
         IF invoked /\ out.status = "return"
         THEN [sel_computed EXCEPT ![a] = Return(out.value)]
         ELSE sel_computed
    /\ sel_since' =
         [k \in SelArgs |->
            IF k = a
            THEN IF out.status = "return" THEN {} ELSE sel_since[k]
            ELSE IF sel_computed[k] # NoneVal THEN SinceWith(k, a) ELSE {}]
    /\ sel_last' =
         [kind     |-> "call",
          args     |-> a,
          prev     |-> sel_computed[a],
          others   |-> Cardinality(sel_since[a]),
          invoked  |-> invoked,
          outcome  |-> out]

\* One call infer_message_types_llm(question, recent_user_msgs, types) through
\* its lru_cache wrapper.  A cached key returns the cached set and becomes the
\* most recently used; otherwise the body runs, and its result is stored
\* unless it raised.
InferCall(a, reply) ==
    LET i == CachePos(sel_cache, CacheKey(a))
    IN  IF i # 0
        THEN /\ sel_cache' = LruTouch(sel_cache, i)
             /\ SelProbes(a, FALSE, Return(sel_cache[i].value))
        ELSE LET out == infer_body(a.question, a.recent, a.types, reply)
             IN  /\ sel_cache' =
                      IF out.status = "return"
                      THEN LruInsert(sel_cache, [key |-> CacheKey(a), value |-> out.value])
                      ELSE sel_cache
                 /\ SelProbes(a, TRUE, out)

\* Replies under SpecSel, one for each way a call can end: the backend call
\* raises, a valid identifier is selected, nothing valid is selected.
SelReplies ==
    {r \in InferReplies :
        \/ r.kind = "timeout"
        \/ /\ r.kind = "function_call"
           /\ r.arguments.parses /\ r.arguments.top = "object" /\ r.arguments.has_key
           /\ r.arguments.mt_kind = "array"
           /\ r.arguments.items \in {<<"GPS">>, <<"BOGUS">>}}

\* Calls in any number; what the backend did is not recorded.
Infer ==
    /\ \E a \in SelArgs, reply \in SelReplies : InferCall(a, reply)
    /\ UNCHANGED <<sel_reply, sel_calls>>

MaxInferCalls == 2      \* calls made under SpecInfer

\* At most MaxInferCalls calls, each recorded with what the backend did.
InferLogged ==
    /\ sel_calls < MaxInferCalls
    /\ \E a \in SelArgs, reply \in InferReplies :
          /\ InferCall(a, reply)
          /\ sel_reply' = IF sel_last'.invoked THEN reply ELSE NoInferReply
    /\ sel_calls' = sel_calls + 1

----------------------------------------------------------------------------
(* service/llm_router.py: refine_types_with_llm.  The reply of the backend *)
(* is free text; a text is the sequence of its symbols, an identifier is   *)
(* the text of its name.  The question and the recent messages only enter  *)
(* the prompt and are not modelled.                                        *)

Comma == ","
Space == " "

\* The symbols of a reply: the separator, white space, and three letters.
Symbols == {Comma, Space, "G", "A", "X"}

\* The identifiers of the candidate lists: "G" and "A".
RefIds == {<<"G">>, <<"A">>}

MaxRaw      == 2        \* longest candidate list raw_types
MaxReplyLen == 3        \* longest reply text, in symbols

Str(chars) == [kind |-> "str", chars |-> chars]
NoContent  == [kind |-> "None", chars |-> <<>>]

\* What the call _llm(messages=[REFINER_SYSTEM, user]) can do: raise, or answer
\* with a content that is None or a text.
RefineReplies ==
    { [kind |-> k, content |-> NoContent] : k \in {"timeout", "network_error", "message"} }
    \cup { [kind |-> "message", content |-> Str(c)] : c \in SeqsUpTo(Symbols, MaxReplyLen) }

NoReply == [kind |-> "none", content |-> NoContent]

\* text.split(","): the pieces between the commas, empty pieces included.
RECURSIVE Split(_)
Split(s) ==
    IF \E i \in 1..Len(s) : s[i] = Comma
    THEN LET i == CHOOSE i \in 1..Len(s) : s[i] = Comma /\ \A j \in 1..(i - 1) : s[j] # Comma
         IN  <<SubSeq(s, 1, i - 1)>> \o Split(SubSeq(s, i + 1, Len(s)))
    ELSE <<s>>

\* t.strip(): t without its leading and trailing white space.
Strip(s) ==
    LET solid == {i \in 1..Len(s) : s[i] # Space}
    IN  IF solid = {} THEN <<>>
        ELSE SubSeq(s, CHOOSE i \in solid : \A j \in solid : i <= j,
                       CHOOSE i \in solid : \A j \in solid : i >= j)

\* set(t.strip() for t in content.split(",") if t.strip())
Tokens(chars) ==
    LET pieces == Split(chars)
    IN  {Strip(pieces[i]) : i \in {j \in 1..Len(pieces) : Strip(pieces[j]) # <<>>}}

refine_types_with_llm(raw_types, reply) ==
    IF reply.kind \in {"timeout", "network_error"}
    THEN Raise(reply.kind)                      \* _llm(...) raises
    ELSE IF IsTrue(reply.content)       \* if resp.content:
    THEN Return(Tokens(reply.content.chars))
    ELSE Return(SetOf(raw_types))

InitRef ==
    /\ ref_raw \in SeqsUpTo(RefIds, MaxRaw)
    /\ ref_reply = NoReply
    /\ ref_out = NoneVal

IdleRef ==
    /\ ref_raw = <<>>
    /\ ref_reply = NoReply
    /\ ref_out = NoneVal

\* One call refine_types_with_llm(question, recent_user_msgs, raw_types).
Refine ==
    /\ ref_out = NoneVal
    /\ \E reply \in RefineReplies :
          /\ ref_reply' = reply
          /\ ref_out' = refine_types_with_llm(ref_raw, reply)
    /\ UNCHANGED ref_raw

----------------------------------------------------------------------------
(* core/session_store.py: SessionStore.  A dict is a function whose domain *)
(* is its set of keys.  The inner dicts of cached_contexts are objects of  *)
(* their own: heap is the sequence of the inner dicts created so far, and  *)
(* cached_contexts maps a session id to the position of its inner dict.    *)

Sessions == {"s1", "s2"}
MsgTypes == {"GPS", "ATT"}

EmptyDict == <<>>

\* d[k] = v
DictPut(d, k, v) == [x \in DOMAIN d \cup {k} |-> IF x = k THEN v ELSE d[x]]

\* d.get(k, default)
DictGet(d, k, default) == IF k \in DOMAIN d THEN d[k] ELSE default

\* A table as TelemetryData.get_df returns it: None, or a DataFrame.
NoDf     == [kind |-> "None", rows |-> <<>>]
Df(rows) == [kind |-> "df", rows |-> rows]

\* TelemetryData objects, by what get_df returns for each message type: a log
\* without data (one table absent, one empty), a log with one GPS row, and a
\* log with two equal GPS rows and one ATT row.
Handles ==
    { [m \in MsgTypes |-> IF m = "GPS" THEN NoDf ELSE Df(<<>>)],
      [m \in MsgTypes |-> IF m = "GPS" THEN Df(<<1>>) ELSE NoDf],
      [m \in MsgTypes |-> IF m = "GPS" THEN Df(<<2, 2>>) ELSE Df(<<1>>)] }

\* tdata.get_df(m)
get_df(tdata, m) == tdata[m]

\* SessionStore.has_session
has_session(tel, s) == s \in DOMAIN tel

\* A short Python string (an intent label, a role), by its value.
Text(v) == [kind |-> "text", v |-> v]

\* A Python list.
PyList(items) == [kind |-> "list", items |-> items]

\* A TelemetryData object.
TData(h) == [kind |-> "tdata", h |-> h]

\* A getter leaves its dict as it is and returns a value.
Got(d, v) == [d |-> d, ret |-> v]

\* SessionStore.get_telemetry
get_telemetry(tel, s) == Got(tel, IF s \in DOMAIN tel THEN TData(tel[s]) ELSE NoneVal)

\* SessionStore.set_intent
set_intent(it, s, intent) == DictPut(it, s, intent)

\* SessionStore.get_intent
get_intent(it, s) == Got(it, DictGet(it, s, Text("unknown")))

\* UpdatedSessionMetadata(): last_msg_types None, topics a new dict.
UpdatedSessionMetadata == [last_msg_types |-> NoneVal, topics |-> EmptyDict]

\* if session_id not in self.metadata: self.metadata[session_id] = UpdatedSessionMetadata()
EnsureMetadata(md, s) == IF s \notin DOMAIN md THEN DictPut(md, s, UpdatedSessionMetadata) ELSE md

\* SessionStore.set_topic: the topic is stored under the session id in the
\* topics dict of the session's metadata.
set_topic(md, s, topic) ==
    [EnsureMetadata(md, s) EXCEPT ![s].topics = DictPut(@, s, topic)]

\* SessionStore.get_topic
get_topic(md, s) == Got(md, DictGet(DictGet(md, s, UpdatedSessionMetadata).topics, s, Str(<<>>)))

\* SessionStore.set_last_msg_types
set_last_msg_types(md, s, msg_types) ==
    [EnsureMetadata(md, s) EXCEPT ![s].last_msg_types = PyList(msg_types)]

\* SessionStore.get_last_msg_types
get_last_msg_types(md, s) == Got(md, DictGet(md, s, UpdatedSessionMetadata).last_msg_types)

\* Message(role=role, content=content)
Message(role, content) == [kind |-> "Message", role |-> role, content |-> content]

\* SessionStore.add_message
add_message(ch, s, role, content) ==
    LET ch1 == IF s \notin DOMAIN ch THEN DictPut(ch, s, <<>>) ELSE ch
    IN  [ch1 EXCEPT ![s] = Append(@, Message(role, content))]

\* Mutant of get_history: the history is read with setdefault, which creates
\* the entry of a session that has none.
get_history_setdefault(ch, s) ==
    IF s \notin DOMAIN ch
    THEN Got(DictPut(ch, s, <<>>), PyList(<<>>))
    ELSE Got(ch, PyList([i \in 1..Len(ch[s]) |->
                            [role |-> ch[s][i].role, content |-> ch[s][i].content]]))

\* SessionStore.get_history: the messages as dicts with keys role, content.
get_history(ch, s) ==
    IF s \notin DOMAIN ch
    THEN Got(ch, PyList(<<>>))
    ELSE Got(ch, PyList([i \in 1..Len(ch[s]) |->
                            [role |-> ch[s][i].role, content |-> ch[s][i].content]]))

\* The temporary {} that cached_contexts.get(session_id, {}) returns for a
\* session without inner dict.
TempDict == 0

\* self.cached_contexts.get(session_id, {}): a reference to an inner dict.
get_cached_outer(cc, s) == DictGet(cc, s, TempDict)

\* <inner dict>.get(msg_type)
get_cached_inner(hp, ref, m) ==
    IF ref = TempDict THEN NoneVal ELSE DictGet(hp[ref], m, NoneVal)

\* SessionStore.get_cached_context
get_cached_context(cc, hp, s, m) == get_cached_inner(hp, get_cached_outer(cc, s), m)

----------------------------------------------------------------------------
(* service/summariser.py: build_context.  The call is a frame that runs    *)
(* through the dictionary operations of the loop one at a time:            *)
(*   gc_outer, gc_inner   store.get_cached_context(session_id, m)          *)
(*   get_df               tdata.get_df(m), summarise_df(df)                *)
(*   cc_check, cc_create, cc_load, cc_store                                *)
(*                        store.cache_context(session_id, m, summary)      *)
(*   done                 the return                                       *)

\* f"### {m} (cached)\n{cached}" and f"### {m} ({len(df)} rows)\n{summary}"
CachedSection(m, cached)    == [label |-> m, tag |-> "cached", rows |-> 0, body |-> cached]
FreshSection(m, n, summary) == [label |-> m, tag |-> "rows", rows |-> n, body |-> summary]

\* "No relevant data found."
Sentinel == <<[label |-> "No relevant data found.", tag |-> "literal", rows |-> 0, body |-> NoneVal]>>

\* Mutant of JoinOrSentinel: the join alone, without the "or" fall-back.
JoinOrSentinel_joinOnly(parts) == parts

\* "\n\n".join(parts) or "No relevant data found.": a text is the sequence of
\* its sections, and the join of no parts is the empty text.
JoinOrSentinel(parts) == IF parts = <<>> THEN Sentinel ELSE parts

\* Mutant of UseCached: the cached summary is never used.
UseCached_never(cached) == FALSE

\* if cached:
UseCached(cached) == IsTrue(cached)

IdleFrame ==
    [pc |-> "idle", s |-> "s1", tdata |-> [m \in MsgTypes |-> NoDf],
     order |-> <<>>, todo |-> <<>>,
     parts |-> <<>>, ref |-> TempDict, summary |-> NoneVal, rows |-> 0,
     fetched |-> {}, stored |-> {}, result |-> <<>>]

\* The iteration of the for loop is over: return when no identifier is left.
NextIteration(f) ==
    IF Len(f.todo) <= 1
    THEN [f EXCEPT !.pc = "done", !.todo = <<>>, !.result = JoinOrSentinel(f.parts)]
    ELSE [f EXCEPT !.pc = "gc_outer", !.todo = Tail(f.todo)]

\* The frame of build_context(tdata, msg_types, s, store), the for loop
\* visiting msg_types in the given order.
EnterFrame(tdata, order, s) ==
    IF order = <<>>
    THEN [IdleFrame EXCEPT !.pc = "done", !.s = s, !.tdata = tdata,
                           !.result = JoinOrSentinel(<<>>)]
    ELSE [IdleFrame EXCEPT !.pc = "gc_outer", !.s = s, !.tdata = tdata,
                           !.order = order, !.todo = order]

\* One step of a frame on the store st = [cc, heap]: the frame and the store
\* after it.
Step(st, f) ==
    LET m == Head(f.todo)
    IN  CASE f.pc = "gc_outer" ->
               [st |-> st,
                f  |-> [f EXCEPT !.pc = "gc_inner", !.ref = get_cached_outer(st.cc, f.s)]]
          [] f.pc = "gc_inner" ->
               LET cached == get_cached_inner(st.heap, f.ref, m)
               IN  IF UseCached(cached)
                   THEN [st |-> st,
                         f  |-> NextIteration([f EXCEPT !.parts = Append(@, CachedSection(m, cached))])]
                   ELSE [st |-> st, f |-> [f EXCEPT !.pc = "get_df"]]
          [] f.pc = "get_df" ->
               LET df == get_df(f.tdata, m)
                   g  == [f EXCEPT !.fetched = @ \cup {m}]
               IN  IF df.kind = "None" \/ df.rows = <<>>
                   THEN [st |-> st, f |-> NextIteration(g)]
                   ELSE [st |-> st,
                         f  |-> [g EXCEPT !.pc = "cc_check",
                                          !.summary = summarise_df(df.rows),
                                          !.rows = Len(df.rows)]]
          [] f.pc = "cc_check" ->
               [st |-> st,
                f  |-> [f EXCEPT !.pc = IF f.s \notin DOMAIN st.cc THEN "cc_create" ELSE "cc_load"]]
          [] f.pc = "cc_create" ->
               [st |-> [cc   |-> DictPut(st.cc, f.s, Len(st.heap) + 1),
                        heap |-> Append(st.heap, EmptyDict)],
                f  |-> [f EXCEPT !.pc = "cc_load"]]
          [] f.pc = "cc_load" ->
               [st |-> st, f |-> [f EXCEPT !.pc = "cc_store", !.ref = st.cc[f.s]]]
          [] f.pc = "cc_store" ->
               [st |-> [st EXCEPT !.heap[f.ref] = DictPut(@, m, f.summary)],
                f  |-> NextIteration([f EXCEPT
                          !.parts = Append(@, FreshSection(m, f.rows, f.summary)),
                          !.stored = @ \cup {m},
                          !.summary = NoneVal, !.rows = 0])]
          [] OTHER -> [st |-> st, f |-> f]

\* A frame run to its return without another frame in between.
RECURSIVE Run(_, _)
Run(st, f) ==
    IF f.pc = "done" THEN [st |-> st, f |-> f]
    ELSE LET n == Step(st, f) IN Run(n.st, n.f)

\* build_context(tdata, msg_types, session_id, store) as one call.
build_context(st, tdata, order, s) == Run(st, EnterFrame(tdata, order, s))

\* SessionStore.cache_context(session_id, msg_type, summary) as one call.
cache_context(st, s, m, summary) ==
    Run(st, [IdleFrame EXCEPT !.pc = "cc_check", !.s = s, !.todo = <<m>>,
                              !.summary = summary]).st

\* The orders in which a for loop may visit a set of message types.
Orders == {o \in SeqsUpTo(MsgTypes, Cardinality(MsgTypes)) :
              \A i, j \in 1..Len(o) : i # j => o[i] # o[j]}

InitStore ==
    /\ telemetry = EmptyDict
    /\ intents = EmptyDict
    /\ conversation_history = EmptyDict
    /\ metadata = EmptyDict
    /\ cached_contexts = EmptyDict
    /\ heap = <<>>
    /\ bc_last = NoneVal
    /\ st_last = NoneVal
    /\ rt_last = NoneVal
    /\ th = [t \in Threads |-> IdleFrame]
    /\ calls = [t \in Threads |-> 0]

IdleStore == InitStore

\* SessionStore.add_session(session_id, data)
add_session(s, data) ==
    /\ telemetry' = DictPut(telemetry, s, data)
    /\ intents' = DictPut(intents, s, Text("unknown"))
    /\ UNCHANGED <<conversation_history, metadata, cached_contexts, heap,
                   bc_last, rt_last, th, calls>>

AddSession ==
    /\ \E s \in Sessions, data \in Handles : add_session(s, data)
    /\ UNCHANGED st_last

\* A request handler calls build_context for a session of the store, with the
\* telemetry handle of the session, and runs it to its return.
BuildContext(s, order) ==
    /\ has_session(telemetry, s)
    /\ LET r == build_context([cc |-> cached_contexts, heap |-> heap], telemetry[s], order, s)
       IN  /\ cached_contexts' = r.st.cc
           /\ heap' = r.st.heap
           /\ bc_last' = [kind |-> "call", s |-> s, order |-> order,
                          result |-> r.f.result, fetched |-> r.f.fetched,
                          stored |-> r.f.stored]
    /\ UNCHANGED <<telemetry, intents, conversation_history, metadata,
                   st_last, rt_last, th, calls>>

BuildContextCall == \E s \in Sessions, order \in Orders : BuildContext(s, order)

----------------------------------------------------------------------------
(* The methods of SessionStore, called one after the other.  st_last is    *)
(* the last call: the method, its session id and the value it returned.    *)

MaxHistory == 1         \* messages added to the histories of the store

\* The arguments the callers pass.
IntentValues  == {Text("factual")}
TopicValues   == {Str(<<"t">>)}
MsgTypeLists  == {<<Text("GPS")>>}
SummaryValues == {summarise_df(<<1>>)}
StoreHandles  == {h \in Handles : get_df(h, "GPS") = Df(<<1>>)}
StoreTypes    == {"GPS"}

\* The number of messages in the histories of the store.
StoredMessages(ch) ==
    Cardinality(UNION {{<<s, i>> : i \in 1..Len(ch[s])} : s \in DOMAIN ch})

Called(op, s, ret) == [kind |-> "call", op |-> op, s |-> s, ret |-> ret]

AddSessionOp(s) ==
    /\ \E data \in StoreHandles : add_session(s, data)
    /\ st_last' = Called("add_session", s, NoneVal)

GetTelemetry(s) ==
    /\ telemetry' = get_telemetry(telemetry, s).d
    /\ st_last' = Called("get_telemetry", s, get_telemetry(telemetry, s).ret)
    /\ UNCHANGED <<intents, conversation_history, metadata, cached_contexts, heap,
                   bc_last, rt_last, th, calls>>

HasSession(s) ==
    /\ st_last' = Called("has_session", s, [kind |-> "bool", v |-> has_session(telemetry, s)])
    /\ UNCHANGED <<telemetry, intents, conversation_history, metadata,
                   cached_contexts, heap, bc_last, rt_last, th, calls>>

SetIntent(s) ==
    /\ \E intent \in IntentValues : intents' = set_intent(intents, s, intent)
    /\ st_last' = Called("set_intent", s, NoneVal)
    /\ UNCHANGED <<telemetry, conversation_history, metadata, cached_contexts, heap,
                   bc_last, rt_last, th, calls>>

GetIntent(s) ==
    /\ intents' = get_intent(intents, s).d
    /\ st_last' = Called("get_intent", s, get_intent(intents, s).ret)
    /\ UNCHANGED <<telemetry, conversation_history, metadata, cached_contexts, heap,
                   bc_last, rt_last, th, calls>>

SetTopic(s) ==
    /\ \E topic \in TopicValues : metadata' = set_topic(metadata, s, topic)
    /\ st_last' = Called("set_topic", s, NoneVal)
    /\ UNCHANGED <<telemetry, intents, conversation_history, cached_contexts, heap,
                   bc_last, rt_last, th, calls>>

GetTopic(s) ==
    /\ metadata' = get_topic(metadata, s).d
    /\ st_last' = Called("get_topic", s, get_topic(metadata, s).ret)
    /\ UNCHANGED <<telemetry, intents, conversation_history, cached_contexts, heap,
                   bc_last, rt_last, th, calls>>

SetLastMsgTypes(s) ==
    /\ \E l \in MsgTypeLists : metadata' = set_last_msg_types(metadata, s, l)
    /\ st_last' = Called("set_last_msg_types", s, NoneVal)
    /\ UNCHANGED <<telemetry, intents, conversation_history, cached_contexts, heap,
                   bc_last, rt_last, th, calls>>

GetLastMsgTypes(s) ==
    /\ metadata' = get_last_msg_types(metadata, s).d
    /\ st_last' = Called("get_last_msg_types", s, get_last_msg_types(metadata, s).ret)
    /\ UNCHANGED <<telemetry, intents, conversation_history, cached_contexts, heap,
                   bc_last, rt_last, th, calls>>

CacheContext(s) ==
    /\ \E m \in StoreTypes, summary \in SummaryValues :
          LET st == cache_context([cc |-> cached_contexts, heap |-> heap], s, m, summary)
          IN  /\ cached_contexts' = st.cc
              /\ heap' = st.heap
    /\ st_last' = Called("cache_context", s, NoneVal)
    /\ UNCHANGED <<telemetry, intents, conversation_history, metadata,
                   bc_last, rt_last, th, calls>>

GetCachedContext(s) ==
    /\ \E m \in StoreTypes :
          st_last' = Called("get_cached_context", s,
                            get_cached_context(cached_contexts, heap, s, m))
    /\ UNCHANGED <<telemetry, intents, conversation_history, metadata,
                   cached_contexts, heap, bc_last, rt_last, th, calls>>

AddMessage(s) ==
    /\ StoredMessages(conversation_history) < MaxHistory
    /\ conversation_history' = add_message(conversation_history, s, "user", "hi")
    /\ st_last' = Called("add_message", s, NoneVal)
    /\ UNCHANGED <<telemetry, intents, metadata, cached_contexts, heap,
                   bc_last, rt_last, th, calls>>

GetHistory(s) ==
    /\ conversation_history' = get_history(conversation_history, s).d
    /\ st_last' = Called("get_history", s, get_history(conversation_history, s).ret)
    /\ UNCHANGED <<telemetry, intents, metadata, cached_contexts, heap,
                   bc_last, rt_last, th, calls>>

----------------------------------------------------------------------------
(* agents/intent_router.py: IntentRouterAgent.  The text the classifier    *)
(* backend returns is either not JSON or the text of a JSON value; strings *)
(* inside it are intent labels (Text) or topic texts (Str).  The agents'   *)
(* chat methods are outside the router; a route call ends by handing the   *)
(* message to one agent, or by raising.                                    *)

\* A JSON object, as json.loads returns it: a dict.
Dict(fields) == [kind |-> "dict", fields |-> fields]

\* A JSON number.
Num(n) == [kind |-> "num", n |-> n]

\* str.lower() on the labels and on the symbols of a topic text.
LowerLabel(v) == IF v = "Factual" THEN "factual" ELSE v
LowerSym(c)   == IF c = "T" THEN "t" ELSE c

\* A JSON value written in lower case.
Lowered(x) ==
    CASE x.kind = "text" -> Text(LowerLabel(x.v))
      [] x.kind = "str"  -> Str([i \in 1..Len(x.chars) |-> LowerSym(x.chars[i])])
      [] OTHER           -> x

\* The intent labels the backend may write, the prompt's "exploratory" and a
\* capitalised label among them, and values that are not strings.
IntentFields ==
    { Text(v) : v \in {"greeting", "factual", "Factual", "anomaly", "clarification",
                       "other", "exploratory"} }
    \cup {NoneVal, PyList(<<>>)}

\* The follow_up_on values the backend may write.
FollowUpFields == {Str(<<>>), Str(<<Space>>), Str(<<"T">>), NoneVal}

\* The JSON objects of the backend: each key present or not, every intent
\* alone, and every follow_up_on next to the intents "factual", "Factual"
\* and "other".
IntentObjects ==
    { Dict(EmptyDict) }
    \cup { Dict([k \in {"intent"} |-> i]) : i \in IntentFields }
    \cup { Dict([k \in {"follow_up_on"} |-> f]) : f \in FollowUpFields }
    \cup { Dict([k \in {"intent", "follow_up_on"} |-> IF k = "intent" THEN i ELSE f]) :
               i \in {Text("factual"), Text("Factual"), Text("other")},
               f \in FollowUpFields }

\* result.content of llm.invoke(msgs): a text that json.loads rejects, or the
\* text of a JSON value (an object, null, an array, a string, a number).
IntentReplies ==
    { [form |-> "not_json", value |-> NoneVal] }
    \cup { [form |-> "json", value |-> v] :
              v \in IntentObjects \cup {NoneVal, PyList(<<>>), Text("factual"), Num(7)} }

\* json.loads(result.content.strip().lower()): the value with its strings in
\* lower case.
LoadsLowered(v) ==
    IF v.kind = "dict"
    THEN Dict([k \in DOMAIN v.fields |-> Lowered(v.fields[k])])
    ELSE Lowered(v)

\* IntentRouterAgent.classify_intent_llm
classify_intent_llm(reply) ==
    IF reply.form = "json"
    THEN LoadsLowered(reply.value)
    ELSE Dict([k \in {"intent", "follow_up_on"} |->
                  IF k = "intent" THEN Text("other") ELSE Str(<<>>)])

\* INTENT_TO_AGENT_MAP: the agent objects built in __init__, by class.
INTENT_TO_AGENT_MAP ==
    [i \in {"greeting", "factual", "anomaly", "clarification", "other"} |->
        CASE i = "greeting" -> "GreetingAgent"
          [] i = "factual"  -> "TelemetryAnalysisAgent"
          [] i = "anomaly"  -> "AnomalyAgent"
          [] i = "clarification" -> "TelemetryAnalysisAgent"
          [] i = "other"    -> "FallbackAgent"]

\* agent.chat(user_msg) on an agent of the map, or on a new FallbackAgent.
Dispatch(cls, from) == [status |-> "dispatch", agent |-> cls, from |-> from, exc |-> "none"]

\* An exception leaves route.
RouteRaise(e) == [status |-> "raise", agent |-> "none", from |-> "none", exc |-> e]

\* A value that a dict accepts as key.
Hashable(x) == x.kind \notin {"list", "dict"}

\* IntentRouterAgent.route on the store rs = [intents, metadata]: the store
\* after it, whether set_intent was called, and how the call ended.
route(rs, s, reply) ==
    LET parsed == classify_intent_llm(reply)
    IN  IF parsed.kind # "dict"
        THEN [rs |-> rs, set |-> FALSE, out |-> RouteRaise("AttributeError")]      \* parsed.get
        ELSE
        LET intent == DictGet(parsed.fields, "intent", Text("other"))
            raw    == DictGet(parsed.fields, "follow_up_on", Str(<<>>))
        IN  IF raw.kind # "str"
            THEN [rs |-> rs, set |-> FALSE, out |-> RouteRaise("AttributeError")]  \* .strip()
            ELSE
            LET follow_up_on == Str(Strip(raw.chars))
                it1 == set_intent(rs.intents, s, intent)
                md1 == IF intent = Text("factual") /\ IsTrue(follow_up_on)
                       THEN set_topic(rs.metadata, s, follow_up_on)
                       ELSE rs.metadata
                rs1 == [intents |-> it1, metadata |-> md1]
            IN  IF ~Hashable(intent)
                THEN [rs |-> rs1, set |-> TRUE, out |-> RouteRaise("TypeError")]  \* MAP.get(intent)
                ELSE IF intent.kind = "text" /\ intent.v \in DOMAIN INTENT_TO_AGENT_MAP
                THEN [rs |-> rs1, set |-> TRUE,
                      out |-> Dispatch(INTENT_TO_AGENT_MAP[intent.v], "map")]
                ELSE [rs |-> rs1, set |-> TRUE, out |-> Dispatch("FallbackAgent", "new")]

\* The store after add_session for every session id, before any message.
InitRoute ==
    /\ telemetry \in [Sessions -> StoreHandles]
    /\ intents = [s \in Sessions |-> Text("unknown")]
    /\ conversation_history = EmptyDict
    /\ metadata = EmptyDict
    /\ cached_contexts = EmptyDict
    /\ heap = <<>>
    /\ bc_last = NoneVal
    /\ st_last = NoneVal
    /\ rt_last = NoneVal
    /\ th = [t \in Threads |-> IdleFrame]
    /\ calls = [t \in Threads |-> 0]

\* IntentRouterAgent(s, store).route(user_msg), the backend answering reply.
Route(s, reply) ==
    /\ has_session(telemetry, s)
    /\ LET r == route([intents |-> intents, metadata |-> metadata], s, reply)
       IN  /\ intents' = r.rs.intents
           /\ metadata' = r.rs.metadata
           /\ rt_last' = [kind |-> "call", s |-> s, reply |-> reply, out |-> r.out,
                          recorded |-> r.set]
    /\ UNCHANGED <<telemetry, conversation_history, cached_contexts, heap,
                   bc_last, st_last, th, calls>>

RouteCall == \E s \in Sessions, reply \in IntentReplies : Route(s, reply)

----------------------------------------------------------------------------
(* Request handlers on threads.  Each thread runs build_context calls; the *)
(* interpreter may switch threads between any two dictionary operations.   *)

MaxThreadCalls == 1     \* build_context calls of one thread

InitConc ==
    /\ telemetry \in [Sessions -> Handles]
    /\ intents = [s \in Sessions |-> Text("unknown")]
    /\ conversation_history = EmptyDict
    /\ metadata = EmptyDict
    /\ cached_contexts = EmptyDict
    /\ heap = <<>>
    /\ bc_last = NoneVal
    /\ st_last = NoneVal
    /\ rt_last = NoneVal
    /\ th = [t \in Threads |-> IdleFrame]
    /\ calls = [t \in Threads |-> 0]

\* Thread t enters build_context for session s.
Begin(t, s, order) ==
    /\ th[t].pc \in {"idle", "done"}
    /\ calls[t] < MaxThreadCalls
    /\ has_session(telemetry, s)
    /\ th' = [th EXCEPT ![t] = EnterFrame(telemetry[s], order, s)]
    /\ calls' = [calls EXCEPT ![t] = @ + 1]
    /\ UNCHANGED <<telemetry, intents, conversation_history, metadata,
                   cached_contexts, heap, bc_last, st_last, rt_last>>

\* Thread t performs the next dictionary operation of its call.
ThreadStep(t) ==
    /\ th[t].pc \notin {"idle", "done"}
    /\ LET n == Step([cc |-> cached_contexts, heap |-> heap], th[t])
       IN  /\ cached_contexts' = n.st.cc
           /\ heap' = n.st.heap
           /\ th' = [th EXCEPT ![t] = n.f]
    /\ UNCHANGED <<telemetry, intents, conversation_history, metadata,
                   bc_last, st_last, rt_last, calls>>

----------------------------------------------------------------------------
(* Specifications                                                          *)

NextSum == Summarise /\ UNCHANGED <<selVars, refVars, storeVars>>

InitSpecSum == InitSum /\ IdleSel /\ IdleRef /\ IdleStore

SpecSum == InitSpecSum /\ [][NextSum]_vars

NextSel == Infer /\ UNCHANGED <<sumVars, refVars, storeVars>>

InitSpecSel == IdleSum /\ InitSel /\ IdleRef /\ IdleStore

SpecSel == InitSpecSel /\ [][NextSel]_vars

Next ==
    \/ AddSession /\ UNCHANGED <<sumVars, selVars, refVars>>
    \/ BuildContextCall /\ UNCHANGED <<sumVars, selVars, refVars>>

Init == IdleSum /\ IdleSel /\ IdleRef /\ InitStore

Spec == Init /\ [][Next]_vars

NextConc ==
    \/ (\E t \in Threads, s \in Sessions, order \in Orders : Begin(t, s, order))
          /\ UNCHANGED <<sumVars, selVars, refVars>>
    \/ (\E t \in Threads : ThreadStep(t)) /\ UNCHANGED <<sumVars, selVars, refVars>>

InitSpecConc == IdleSum /\ IdleSel /\ IdleRef /\ InitConc

SpecConc == InitSpecConc /\ [][NextConc]_vars

NextInfer == InferLogged /\ UNCHANGED <<sumVars, refVars, storeVars>>

InitSpecInfer == IdleSum /\ InitSel /\ IdleRef /\ IdleStore

SpecInfer == InitSpecInfer /\ [][NextInfer]_vars

NextStore ==
    \/ (\E s \in Sessions : AddSessionOp(s)) /\ UNCHANGED <<sumVars, selVars, refVars>>
    \/ (\E s \in Sessions : GetTelemetry(s)) /\ UNCHANGED <<sumVars, selVars, refVars>>
    \/ (\E s \in Sessions : HasSession(s)) /\ UNCHANGED <<sumVars, selVars, refVars>>
    \/ (\E s \in Sessions : SetIntent(s)) /\ UNCHANGED <<sumVars, selVars, refVars>>
    \/ (\E s \in Sessions : GetIntent(s)) /\ UNCHANGED <<sumVars, selVars, refVars>>
    \/ (\E s \in Sessions : SetTopic(s)) /\ UNCHANGED <<sumVars, selVars, refVars>>
    \/ (\E s \in Sessions : GetTopic(s)) /\ UNCHANGED <<sumVars, selVars, refVars>>
    \/ (\E s \in Sessions : SetLastMsgTypes(s)) /\ UNCHANGED <<sumVars, selVars, refVars>>
    \/ (\E s \in Sessions : GetLastMsgTypes(s)) /\ UNCHANGED <<sumVars, selVars, refVars>>
    \/ (\E s \in Sessions : CacheContext(s)) /\ UNCHANGED <<sumVars, selVars, refVars>>
    \/ (\E s \in Sessions : GetCachedContext(s)) /\ UNCHANGED <<sumVars, selVars, refVars>>
    \/ (\E s \in Sessions : AddMessage(s)) /\ UNCHANGED <<sumVars, selVars, refVars>>
    \/ (\E s \in Sessions : GetHistory(s)) /\ UNCHANGED <<sumVars, selVars, refVars>>

InitSpecStore == IdleSum /\ IdleSel /\ IdleRef /\ InitStore

SpecStore == InitSpecStore /\ [][NextStore]_vars

NextRoute == RouteCall /\ UNCHANGED <<sumVars, selVars, refVars>>

InitSpecRoute == IdleSum /\ IdleSel /\ IdleRef /\ InitRoute

SpecRoute == InitSpecRoute /\ [][NextRoute]_vars

NextRefine == Refine /\ UNCHANGED <<sumVars, selVars, storeVars>>

InitSpecRefine == IdleSum /\ IdleSel /\ InitRef /\ IdleStore

SpecRefine == InitSpecRefine /\ [][NextRefine]_vars

----------------------------------------------------------------------------
(* Type Selector claims.                                                   *)

\* C1: every identifier refine_types_with_llm returns is an element of the
\* candidate list raw_types.  (Stated as the claim; the code returns the
\* tokens of the reply unfiltered.)
C1_RefineWithinCandidates ==
    (ref_out # NoneVal /\ ref_out.status = "return") =>
        ref_out.value \subseteq SetOf(ref_raw)

\* C2: a failure of the reasoning backend during a call (the backend call
\* raises, or the function-call arguments are not parseable JSON) makes
\* infer_message_types_llm return {"ERR"}.  (Stated as the claim; the code
\* lets the exception propagate.)
C2_FailureFallsBack ==
    (sel_last # NoneVal /\ BackendFailed(sel_reply)) =>
        sel_last.outcome = Return({ERR})

\* C3: a set returned by infer_message_types_llm is never empty and is a
\* subset of (types union {"ERR"}); when the backend answered with a
\* message_types list, the result is the valid identifiers of the list, or
\* {"ERR"} when the list has none.
C3_ProposeResult ==
    (sel_last # NoneVal /\ sel_last.outcome.status = "return") =>
        LET v       == sel_last.outcome.value
            types   == sel_last.args.types
            emitted == SetOf(sel_reply.arguments.items)
        IN  /\ v # {}
            /\ v \subseteq (types \cup {ERR})
            /\ (sel_last.invoked /\ sel_reply.kind = "function_call") =>
                  v = (IF emitted \cap types # {} THEN emitted \cap types ELSE {ERR})

\* Witness of C3: the backend emitted an identifier outside the valid set next
\* to a valid one, and the call returned the valid one alone.
C3_Witness ==
    /\ sel_last # NoneVal
    /\ sel_reply.kind = "function_call"
    /\ sel_reply.arguments.items = <<"BOGUS", "GPS">>
    /\ sel_last.outcome = Return({"GPS"})

\* C11: a call of refine_types_with_llm with a non-empty candidate list that
\* returns, returns a set with at least one identifier, whatever text the
\* backend replied with.  (Stated as the claim; a reply of commas and white
\* space alone is a true value with no token, and the code returns set().)
C11_RefineNonEmpty ==
    (ref_out # NoneVal /\ ref_out.status = "return" /\ ref_raw # <<>>) =>
        ref_out.value # {}

\* C7 as claimed: once a call with some arguments has returned, every later
\* call with the same arguments returns the same set and does not invoke the
\* backend.
C7_MemoisedForever ==
    (sel_last # NoneVal /\ sel_last.prev # NoneVal) =>
        (~sel_last.invoked /\ sel_last.outcome = sel_last.prev)

\* C7, amended: once a call with some arguments has returned, a later call
\* with the same arguments, made before as many distinct other argument
\* tuples as the cache has room for were called, returns the same set and
\* does not invoke the backend.
C7_MemoisedWhileCached ==
    (sel_last # NoneVal /\ sel_last.prev # NoneVal /\ sel_last.others < LruMaxSize) =>
        (~sel_last.invoked /\ sel_last.outcome = sel_last.prev)

\* Witness of C7: a call was answered from the cache after a call with other
\* arguments had been made in between.
C7_Witness ==
    /\ sel_last # NoneVal
    /\ sel_last.prev # NoneVal
    /\ sel_last.others >= 1
    /\ sel_last.others < LruMaxSize
    /\ ~sel_last.invoked

----------------------------------------------------------------------------
(* Context Builder claims.                                                 *)

\* The section of message type m in a returned context, or NoneVal.
SectionOf(result, m) ==
    IF \E i \in 1..Len(result) : result[i].label = m
    THEN result[CHOOSE i \in 1..Len(result) : result[i].label = m]
    ELSE NoneVal

\* C4: once a summary is cached for (s, m), it stays cached unchanged, and a
\* build_context call for s that includes m does not call get_df for m and
\* emits the cached summary verbatim.
C4_CachedIsReused ==
    [][\A s \in Sessions, m \in MsgTypes :
          LET cached == get_cached_context(cached_contexts, heap, s, m)
          IN  IsTrue(cached) =>
                /\ get_cached_context(cached_contexts', heap', s, m) = cached
                /\ \A order \in Orders :
                      (BuildContext(s, order) /\ m \in SetOf(order)) =>
                         /\ m \notin bc_last'.fetched
                         /\ m \notin bc_last'.stored
                         /\ SectionOf(bc_last'.result, m) = CachedSection(m, cached)]_vars

\* Witness of C4: a build_context call has emitted a cached summary.
C4_Witness ==
    /\ bc_last # NoneVal
    /\ \E i \in 1..Len(bc_last.result) : bc_last.result[i].tag = "cached"

\* C12: build_context never returns the empty text: the context it returns
\* is the sentinel, or a text of at least one labeled section, each the
\* section of a requested identifier.
C12_NeverEmpty ==
    bc_last # NoneVal =>
        /\ bc_last.result # <<>>
        /\ \/ bc_last.result = Sentinel
           \/ \A i \in 1..Len(bc_last.result) :
                 /\ bc_last.result[i].tag \in {"cached", "rows"}
                 /\ bc_last.result[i].label \in SetOf(bc_last.order)

\* Witness of C12: a call for a non-empty identifier set found neither a
\* cached summary nor data, and returned the sentinel.
C12_Witness ==
    /\ bc_last # NoneVal
    /\ bc_last.order # <<>>
    /\ bc_last.fetched = SetOf(bc_last.order)
    /\ bc_last.result = Sentinel

\* The table the accessor returns for m is present and non-empty.
HasData(tdata, m) == get_df(tdata, m).kind # "None" /\ get_df(tdata, m).rows # <<>>

\* C13: a build_context call for session s changes the store only by adding
\* the summary of (s, m) for each requested m that was not cached and whose
\* table is present and non-empty: it leaves telemetry, intents, history,
\* metadata and the cache of every other session unchanged, overwrites no
\* cache entry, and an identifier whose table is absent or empty gets no
\* section and no cache entry.  (Stated as the claim; an identifier whose
\* table is absent or empty gets a "(cached)" section when a summary of the
\* session's earlier telemetry is still cached.)
C13_BuildContextFrame ==
    [][\A s \in Sessions, order \in Orders :
          BuildContext(s, order) =>
            /\ telemetry' = telemetry
            /\ intents' = intents
            /\ conversation_history' = conversation_history
            /\ metadata' = metadata
            /\ \A b \in Sessions \ {s} :
                  /\ (b \in DOMAIN cached_contexts') = (b \in DOMAIN cached_contexts)
                  /\ \A m \in MsgTypes :
                        get_cached_context(cached_contexts', heap', b, m)
                            = get_cached_context(cached_contexts, heap, b, m)
            /\ \A m \in MsgTypes :
                  LET before == get_cached_context(cached_contexts, heap, s, m)
                      after  == get_cached_context(cached_contexts', heap', s, m)
                      added  == m \in SetOf(order) /\ HasData(telemetry[s], m)
                  IN  /\ IsTrue(before) => after = before
                      /\ ~IsTrue(before) =>
                            after = (IF added
                                     THEN summarise_df(get_df(telemetry[s], m).rows)
                                     ELSE NoneVal)
                      /\ (m \in SetOf(order) /\ ~HasData(telemetry[s], m)) =>
                            SectionOf(bc_last'.result, m) = NoneVal]_vars

\* C15: every summary cached for (s, m) is summarise_df of the table that the
\* current telemetry handle of s returns for m.  (Stated as the claim;
\* add_session on a session id with cached summaries replaces the handle and
\* leaves the summaries of the earlier handle in the cache.)
C15_CacheMatchesTelemetry ==
    \A s \in Sessions, m \in MsgTypes :
        LET cached == get_cached_context(cached_contexts, heap, s, m)
        IN  IsTrue(cached) =>
              /\ has_session(telemetry, s)
              /\ HasData(telemetry[s], m)
              /\ cached = summarise_df(get_df(telemetry[s], m).rows)

\* The threads have all returned from their calls.
AllDone == \A t \in Threads : th[t].pc = "done"

\* C5: when two threads have run build_context for the same session and
\* different identifiers, the session's map holds the summary each of them
\* stored.  (Stated as the claim; cache_context checks and creates the
\* session's map in separate steps, and a map created second replaces the
\* first with what was stored in it.)
C5_NoLostUpdate ==
    AllDone =>
        \A t1, t2 \in Threads :
            (/\ t1 # t2
             /\ th[t1].s = th[t2].s
             /\ SetOf(th[t1].order) \cap SetOf(th[t2].order) = {}) =>
                \A m \in th[t1].stored :
                    get_cached_context(cached_contexts, heap, th[t1].s, m)
                        = summarise_df(get_df(th[t1].tdata, m).rows)

\* The accessor has no data (None or an empty table) for every identifier.
NoData(tdata, order) ==
    \A m \in SetOf(order) : get_df(tdata, m).kind = "None" \/ get_df(tdata, m).rows = <<>>

\* C6: a build_context call whose accessor has no data for every requested
\* identifier returns the sentinel, whatever the session cache holds.
\* (Stated as the claim; a summary cached from the session's earlier
\* telemetry is emitted instead.)
C6_NoDataGivesSentinel ==
    [][\A s \in Sessions, order \in Orders :
          (BuildContext(s, order) /\ NoData(telemetry[s], order)) =>
              bc_last'.result = Sentinel]_vars

----------------------------------------------------------------------------
(* Row Summarizer claims, checked under SpecSum.                           *)

SumDone == sum_out # NoneVal

\* The records of the JSON array text that summarise_df returned.
SumRecords == sum_out.value.records

\* 1-based positions of the head, mid and tail windows of a table of n rows:
\* the first 300 rows, 0-based rows n//2-150 .. n//2+149, the last 300 rows.
WindowPositions(n) ==
    (1..300) \cup ((n \div 2 - 150 + 1)..(n \div 2 + 149 + 1)) \cup ((n - 299)..n)

\* C8: for 500 < n <= 10000 the summary holds only rows of the head, mid or
\* tail window of the table, no two of its rows are identical, and it has at
\* most 900 rows.
C8_SampledTier ==
    (SumDone /\ 500 < sum_n /\ sum_n <= 10000) =>
        /\ sum_out.kind = "json" /\ sum_out.value.kind = "array"
        /\ \A i \in 1..Len(SumRecords) :
              \E w \in WindowPositions(sum_n) : SumRecords[i] = RowAt(sum_pat, w)
        /\ \A i, j \in 1..Len(SumRecords) : i < j => SumRecords[i] # SumRecords[j]
        /\ Len(SumRecords) <= 900

\* Witness of C8: a table of 601 distinct rows, whose three windows overlap,
\* has been summarised to its 601 rows.
C8_Witness ==
    SumDone /\ sum_n = 601 /\ sum_pat = "distinct" /\ Len(SumRecords) = 601

\* Number of rows at 0-based positions 0, s, 2s, ... below n.
StrideCount(n, s) == (n + s - 1) \div s

\* C9: for n > 10000 the summary is a payload with a sample, a summary and a
\* note naming n; the sample is exactly the rows at 0-based positions
\* 0, s, 2s, ... for s = max(1, n div 300), which are between 300 and 310 rows.
C9_LargeTier ==
    (SumDone /\ sum_n > 10000) =>
        LET s == Max(1, sum_n \div 300)
            sample == sum_out.value.sample
        IN  /\ sum_out.kind = "json" /\ sum_out.value.kind = "object"
            /\ sum_out.value.note = sum_n
            /\ sum_out.value.summary.kind = "object"
            /\ sum_out.value.summary.count = sum_n
            /\ sample.kind = "array"
            /\ Len(sample.records) = StrideCount(sum_n, s)
            /\ \A j \in 1..Len(sample.records) :
                  sample.records[j] = RowAt(sum_pat, (j - 1) * s + 1)
            /\ 300 <= Len(sample.records) /\ Len(sample.records) <= 310

\* Witness of C9: a table of 10198 rows has been sampled with stride 33 to
\* 310 rows.
C9_Witness ==
    SumDone /\ sum_n = 10198 /\ Len(sum_out.value.sample.records) = 310

\* C10: for n <= 500 the summary is the full serialisation: exactly n rows,
\* row i of the output is row i of the table, repeated rows included.
C10_FullTier ==
    (SumDone /\ sum_n <= 500) =>
        /\ sum_out.kind = "json" /\ sum_out.value.kind = "array"
        /\ Len(SumRecords) = sum_n
        /\ \A i \in 1..sum_n : SumRecords[i] = RowAt(sum_pat, i)

\* Witness of C10: a table of 500 identical rows has been serialised to 500
\* rows.
C10_Witness ==
    SumDone /\ sum_n = 500 /\ sum_pat = "constant" /\ Len(SumRecords) = 500

----------------------------------------------------------------------------
(* Session Store claims.                                                   *)

\* The entry of dict d under key k: <<value>>, or <<>> when there is none.
EntryOf(d, k) == IF k \in DOMAIN d THEN <<d[k]>> ELSE <<>>

\* Everything the store holds for session b.
SessionView(b) ==
    [telemetry |-> EntryOf(telemetry, b),
     intent    |-> EntryOf(intents, b),
     metadata  |-> EntryOf(metadata, b),
     history   |-> EntryOf(conversation_history, b),
     cached    |-> IF b \in DOMAIN cached_contexts
                   THEN <<heap[cached_contexts[b]]>> ELSE <<>>]

\* The store holds nothing for session b.
NoView == [telemetry |-> <<>>, intent |-> <<>>, metadata |-> <<>>,
           history |-> <<>>, cached |-> <<>>]

\* The methods that read the store.
Getters == {"get_telemetry", "has_session", "get_intent", "get_topic",
            "get_last_msg_types", "get_cached_context", "get_history"}

\* What each getter returns for a session without entry.
DefaultOf(op) ==
    CASE op = "get_telemetry"      -> NoneVal
      [] op = "has_session"        -> [kind |-> "bool", v |-> FALSE]
      [] op = "get_intent"         -> Text("unknown")
      [] op = "get_topic"          -> Str(<<>>)
      [] op = "get_last_msg_types" -> NoneVal
      [] op = "get_cached_context" -> NoneVal
      [] op = "get_history"        -> PyList(<<>>)

\* C16: a SessionStore method called with session id a leaves what the
\* store holds for every other session id b unchanged, and a getter called
\* for a session the store holds nothing for returns its default and
\* creates no entry.
C16_SessionIsolation ==
    [][\A a \in Sessions :
          (st_last'.kind = "call" /\ st_last'.s = a) =>
             /\ \A b \in Sessions \ {a} : SessionView(b)' = SessionView(b)
             /\ (st_last'.op \in Getters /\ SessionView(a) = NoView) =>
                   /\ SessionView(a)' = NoView
                   /\ st_last'.ret = DefaultOf(st_last'.op)]_vars

\* Witness of C16: get_history was called for a session the store holds
\* nothing for, while the other session has telemetry, an intent, a topic,
\* last message types, a history and a cached summary.
C16_Witness ==
    /\ st_last # NoneVal
    /\ st_last.op = "get_history"
    /\ SessionView(st_last.s) = NoView
    /\ \E b \in Sessions \ {st_last.s} :
          /\ has_session(telemetry, b)
          /\ get_intent(intents, b).ret = Text("factual")
          /\ IsTrue(get_topic(metadata, b).ret)
          /\ IsTrue(get_last_msg_types(metadata, b).ret)
          /\ get_history(conversation_history, b).ret # PyList(<<>>)
          /\ \E m \in MsgTypes : IsTrue(get_cached_context(cached_contexts, heap, b, m))

----------------------------------------------------------------------------
(* Intent Router claims.                                                   *)

\* The intents that have an agent of their own.
RoutedIntents == {"greeting", "factual", "anomaly", "clarification", "other"}

\* C14: whatever text the classifier backend returned (a JSON object, JSON
\* that is not an object, or text that is not JSON), route records an intent
\* for the session and hands the message to one agent without raising: the
\* agent mapped to the recorded intent when it is one of the five routed
\* intents, the fallback agent otherwise and for text that is not JSON.
\* (Stated as the claim; the code raises AttributeError on JSON that is not
\* an object and on a follow_up_on that is not a string, and TypeError on an
\* intent that is a list.)
C14_RouteAlwaysDispatches ==
    rt_last # NoneVal =>
        LET intent == intents[rt_last.s]
        IN  /\ rt_last.recorded
            /\ rt_last.out.status = "dispatch"
            /\ (intent.kind = "text" /\ intent.v \in RoutedIntents) =>
                   rt_last.out.agent = INTENT_TO_AGENT_MAP[intent.v]
            /\ ~(intent.kind = "text" /\ intent.v \in RoutedIntents) =>
                   rt_last.out.agent = "FallbackAgent"
            /\ rt_last.reply.form = "not_json" => rt_last.out.agent = "FallbackAgent"

====
